---- MODULE Spec2Model ----
(***************************************************************************)
(* A model of the exFAT on-disk decoding library in src/src/lib.rs:        *)
(*   - BootSector: construction (from, read_from, read_at_from) and        *)
(*     validate over a 512-byte sector;                                    *)
(*   - Fat, FatEntry and the ClusterChain iterator;                        *)
(*   - DirEntry and the EntryType bit-field accessors.                     *)
(* The parts share no state (the ClusterChain reads the Fat); each has its *)
(* own specification and Spec is their union.                              *)
(***************************************************************************)
EXTENDS Integers, Sequences, FiniteSets, TLC

VARIABLES
    part,     \* which part of the library this behaviour exercises
    buf,      \* BootSector: the 512 bytes held by the source / passed to from
    ctor,     \* BootSector: the constructor that was called ("none" before)
    raw,      \* BootSector: sb.raw once populated (<<>> before construction)
    bsres,    \* BootSector: the Result of the constructor
    v,        \* Fat.v, the Vec<u32> (0-based index i is v[i+1])
    fres,     \* Fat: outcome of the last Fat operation called directly
    start,    \* ClusterChain: the value e was created with
    e,        \* ClusterChain.e, the current FatEntry
    st,       \* ClusterChain: "running", "ended" (next returned None), "panicked"
    last,     \* ClusterChain: what the most recent call of next() did
    out,      \* ClusterChain: the elements yielded so far (first MaxOut of them)
    nyield,   \* ClusterChain: number of elements yielded (saturates at MaxSteps)
    tick,     \* ClusterChain: number of calls of next(), modulo 2
    de,       \* DirEntry.v, 32 bytes (0-based)
    et,       \* EntryType.raw, or -1 when none has been made
    ans       \* EntryType: the last accessor called and what it returned

vars == <<part, buf, ctor, raw, bsres, v, fres, start, e, st, last, out, nyield, tick, de, et, ans>>

bootVars  == <<buf, ctor, raw, bsres>>
fatVars   == <<v, fres>>
chainVars == <<start, e, st, last, out, nyield, tick>>
entryVars == <<de, et, ans>>

(***************************************************************************)
(* Bytes and little-endian integers                                        *)
(***************************************************************************)
\* TLC's integers are 32-bit signed.  The integers of a boot sector (u8 to
\* u64) are modelled by their value, and the sectors offered keep every field
\* below 2^31.  A FAT entry, which must be able to hold 0xFFFFFFF7 and
\* 0xFFFFFFFF, is modelled as the pair <<high 16 bits, low 16 bits>>.
Byte == 0..255

\* byte k (0 = least significant) of the number n
RECURSIVE ByteOf(_, _)
ByteOf(n, k) == IF k = 0 THEN n % 256 ELSE ByteOf(n \div 256, k - 1)

\* &a[from..]: the slice of the 0-based array a from index `from` to its end,
\* as a 1-based sequence
SliceFrom(a, from, len) == [k \in 1..(len - from) |-> a[from + k - 1]]

\* &a[from..to]
Slice(a, from, to) == [k \in 1..(to - from) |-> a[from + k - 1]]

\* the little-endian value of bytes k..size of src
RECURSIVE LeFrom(_, _, _)
LeFrom(src, k, size) ==
    IF k > size THEN 0 ELSE src[k] + 256 * LeFrom(src, k + 1, size)

\* read_num_bytes!(ty, size, src): the first `size` bytes of src copied into an
\* integer of that size and converted from little endian.  The macro asserts
\* size <= src.len(); every use in the model satisfies it.
read_num_bytes(size, src) == LeFrom(src, 1, size)

(***************************************************************************)
(* BootSector                                                              *)
(***************************************************************************)
SectorLen == 512

\* b"EXFAT   "
EXFAT == <<69, 88, 70, 65, 84, 32, 32, 32>>

magic(r)                     == Slice(r, 3, 11)
partition_offs(r)            == read_num_bytes(8, SliceFrom(r, 64, SectorLen))
volume_len(r)                == read_num_bytes(8, SliceFrom(r, 72, SectorLen))
fat_offs(r)                  == read_num_bytes(4, SliceFrom(r, 80, SectorLen))
fat_len(r)                   == read_num_bytes(4, SliceFrom(r, 84, SectorLen))
cluster_heap_offs(r)         == read_num_bytes(4, SliceFrom(r, 88, SectorLen))
cluster_count(r)             == read_num_bytes(4, SliceFrom(r, 92, SectorLen))
first_cluster_of_root_dir(r) == read_num_bytes(4, SliceFrom(r, 96, SectorLen))
bytes_per_sector_shift(r)    == r[108]
sectors_per_cluster_shift(r) == r[109]
number_of_fats(r)            == r[110]
percent_in_use(r)            == r[112]

\* The variants of BootSectorInitError and Ok(BootSector)
BadMagic(m)        == [tag |-> "BadMagic", magic |-> m]
MustBeZeroNonZero  == [tag |-> "MustBeZeroNonZero"]
FatOffsTooSmall(n) == [tag |-> "FatOffsTooSmall", v |-> n]
OkBootSector(r)    == [tag |-> "Ok", raw |-> r]
\* The variants of BootSectorInitIoError
IoError            == [tag |-> "Io"]
InitError(err)     == [tag |-> "Init", err |-> err]
NoResult           == [tag |-> "none"]

\* Faulty variants of validate, against which the properties below are
\* tried: the FAT-offset floor taken as exclusive; the FAT-offset check left
\* out.
validate_floor_exclusive(r) ==
    IF magic(r) # EXFAT THEN BadMagic(magic(r))
    ELSE IF \E i \in 11..(11 + 53 - 1) : r[i] # 0 THEN MustBeZeroNonZero
    ELSE IF fat_offs(r) <= 24 THEN FatOffsTooSmall(fat_offs(r))
    ELSE OkBootSector(r)

validate_no_fat_offs(r) ==
    IF magic(r) # EXFAT THEN BadMagic(magic(r))
    ELSE IF \E i \in 11..(11 + 53 - 1) : r[i] # 0 THEN MustBeZeroNonZero
    ELSE OkBootSector(r)

\* BootSector::validate: magic, then the must-be-zero bytes 11..64, then the
\* FAT offset; nothing else is checked.
validate(r) ==
    IF magic(r) # EXFAT THEN BadMagic(magic(r))
    ELSE IF \E i \in 11..(11 + 53 - 1) : r[i] # 0 THEN MustBeZeroNonZero
    ELSE IF fat_offs(r) < 24 THEN FatOffsTooSmall(fat_offs(r))
    ELSE OkBootSector(r)

\* sb.validate().map_err(|e| BootSectorInitIoError::Init(e))
WrapInit(res) == IF res.tag = "Ok" THEN res ELSE InitError(res)

(***************************************************************************)
(* The sectors the model offers to the constructors                        *)
(***************************************************************************)
\* The geometry fields of a sector.
Geom(vl, fl, ho, cc, rt, bps, spc, nf, pct) ==
    [volume_len |-> vl, fat_len |-> fl, cluster_heap_offs |-> ho,
     cluster_count |-> cc, root |-> rt, bps |-> bps, spc |-> spc,
     nfats |-> nf, pct |-> pct]

\* consistent with fat_offs = 24: one 8-sector FAT, heap at 32, 16 clusters of 8
GoodGeom == Geom(160, 8, 32, 16, 2, 9, 3, 1, 50)

Geoms ==
    { GoodGeom,
      [GoodGeom EXCEPT !.pct = 255],
      [GoodGeom EXCEPT !.nfats = 2, !.cluster_heap_offs = 40, !.volume_len = 168],
      \* room for a FAT at sector 256
      [GoodGeom EXCEPT !.cluster_heap_offs = 512, !.volume_len = 16777856],
      \* one field out of line each
      [GoodGeom EXCEPT !.nfats = 0],
      [GoodGeom EXCEPT !.nfats = 3],
      [GoodGeom EXCEPT !.bps = 8],
      [GoodGeom EXCEPT !.bps = 13],
      [GoodGeom EXCEPT !.root = 1],
      [GoodGeom EXCEPT !.root = 18],
      [GoodGeom EXCEPT !.pct = 101],
      [GoodGeom EXCEPT !.cluster_heap_offs = 31],
      [GoodGeom EXCEPT !.volume_len = 159] }

\* bytes 3..10: the literal, a wrong first byte, a wrong last byte
Magics == { EXFAT, <<70, 88, 70, 65, 84, 32, 32, 32>>, <<69, 88, 70, 65, 84, 32, 32, 0>> }

\* index of the one non-zero byte put in the sector's low part, or -1 for none:
\* 11 and 63 are the ends of the must-be-zero bytes, 64 is the first byte after
NonZeroAt == { -1, 11, 63, 64 }

\* fat_offs: 23 and 24 around the floor; 256 and 385875968 (0x17000000) have a
\* low byte of 0 and differ from their byte-swapped reading
FatOffsValues == { 0, 23, 24, 256, 385875968 }

MkSector(m, nz, fo, g) ==
    [i \in 0..(SectorLen - 1) |->
        IF i = nz THEN 1
        ELSE IF i = 0 THEN 235 ELSE IF i = 1 THEN 118 ELSE IF i = 2 THEN 144
        ELSE IF i \in 3..10 THEN m[i - 2]
        ELSE IF i \in 11..71 THEN 0
        ELSE IF i \in 72..79 THEN ByteOf(g.volume_len, i - 72)
        ELSE IF i \in 80..83 THEN ByteOf(fo, i - 80)
        ELSE IF i \in 84..87 THEN ByteOf(g.fat_len, i - 84)
        ELSE IF i \in 88..91 THEN ByteOf(g.cluster_heap_offs, i - 88)
        ELSE IF i \in 92..95 THEN ByteOf(g.cluster_count, i - 92)
        ELSE IF i \in 96..99 THEN ByteOf(g.root, i - 96)
        ELSE IF i \in 100..103 THEN 165
        ELSE IF i = 104 THEN 0 ELSE IF i = 105 THEN 1
        ELSE IF i \in 106..107 THEN 0
        ELSE IF i = 108 THEN g.bps
        ELSE IF i = 109 THEN g.spc
        ELSE IF i = 110 THEN g.nfats
        ELSE IF i = 111 THEN 128
        ELSE IF i = 112 THEN g.pct
        ELSE IF i \in 113..119 THEN 0
        ELSE IF i = 510 THEN 85 ELSE IF i = 511 THEN 170
        ELSE 244]

Sectors == { MkSector(m, nz, fo, g) : m \in Magics, nz \in NonZeroAt,
                                      fo \in FatOffsValues, g \in Geoms }

\* read_at may return fewer bytes than asked for (lib.rs:104-108): the lengths
\* of the short reads the model tries, and the values the bytes of the
\* uninitialized sb.raw that the read did not reach may hold
ShortReads == { 0, 82, 511 }
StaleBytes == { 0, 127 }

(***************************************************************************)
(* FatEntry and Fat                                                        *)
(***************************************************************************)
\* a u32 as <<high half, low half>>; U32(n) for 0 <= n < 2^31
U32(n) == <<n \div 65536, n % 65536>>

\* 0xFF_FF_FF_F7 and 0xFF_FF_FF_FF
BadCluster  == <<65535, 65527>>
LastCluster == <<65535, 65535>>

\* FatEntry { v: u32 } is modelled by the u32
from_val(i) == i
val(x)      == x
is_bad(x)   == x = BadCluster
is_last(x)  == x = LastCluster

\* the outcome of a call that may panic
Returned(x) == [panic |-> FALSE, val |-> x]
Panicked    == [panic |-> TRUE, val |-> <<>>]

\* Fat::entry: self.v[e.val() as usize], a bounds-checked Vec index: every
\* index below v.len() is served, 0 and 1 included; any other panics.
\* `i as usize` used as an index of a Vec of n entries (n < 2^16 in the
\* model): whether it is in bounds, and the 1-based position it names
InBounds(i, n) == i[1] = 0 /\ i[2] < n
Position(i)    == i[2] + 1

Fat_entry(f, x) ==
    IF InBounds(val(x), Len(f)) THEN Returned(from_val(f[Position(val(x))]))
    ELSE Panicked

\* Fat::media_type: (self.v[0] & 0xff) as u8
Fat_media_type(f) == IF 0 < Len(f) THEN Returned(f[1][2] % 256) ELSE Panicked

\* Fat::cluster_ct: self.v.len() as u32 / 4 - 2 in u32.  The subtraction
\* underflows when v.len() / 4 < 2: a panic in a build with overflow checks,
\* a wrap modulo 2^32 in one without.
Fat_cluster_ct(f) ==
    LET q == Len(f) \div 4
    IN  IF q >= 2 THEN { Returned(U32(q - 2)) }
        ELSE { Panicked, Returned(<<65535, 65534 + q>>) }

(***************************************************************************)
(* ClusterChain                                                            *)
(***************************************************************************)
\* Option<Result<FatEntry, FatEntry>> and the index the call looked up
NoLookup       == <<-1, -1>>
RetNone(l)     == [kind |-> "None", c |-> U32(0), looked |-> l]
RetOk(c, l)    == [kind |-> "Ok", c |-> c, looked |-> l]
RetErr(c, l)   == [kind |-> "Err", c |-> c, looked |-> l]
RetPanic(l)    == [kind |-> "panic", c |-> U32(0), looked |-> l]
NotCalled      == [kind |-> "init", c |-> U32(0), looked |-> NoLookup]

\* Faulty variants of ClusterChain::next, against which the properties below
\* are tried: the end of the chain tested on the entry just fetched; the
\* bad-cluster mark tested on the current entry; self.e never advanced.
next_ends_on_fetched(f, cur) ==
    IF is_last(cur) THEN [e |-> cur, ret |-> RetNone(NoLookup)]
    ELSE LET r == Fat_entry(f, cur)
         IN  IF r.panic THEN [e |-> cur, ret |-> RetPanic(val(cur))]
             ELSE IF is_last(r.val) THEN [e |-> r.val, ret |-> RetNone(val(cur))]
             ELSE IF is_bad(r.val) THEN [e |-> r.val, ret |-> RetErr(cur, val(cur))]
             ELSE [e |-> r.val, ret |-> RetOk(cur, val(cur))]

next_bad_on_current(f, cur) ==
    IF is_last(cur) THEN [e |-> cur, ret |-> RetNone(NoLookup)]
    ELSE LET r == Fat_entry(f, cur)
         IN  IF r.panic THEN [e |-> cur, ret |-> RetPanic(val(cur))]
             ELSE IF is_bad(cur) THEN [e |-> r.val, ret |-> RetErr(cur, val(cur))]
             ELSE [e |-> r.val, ret |-> RetOk(cur, val(cur))]

next_no_advance(f, cur) ==
    IF is_last(cur) THEN [e |-> cur, ret |-> RetNone(NoLookup)]
    ELSE LET r == Fat_entry(f, cur)
         IN  IF r.panic THEN [e |-> cur, ret |-> RetPanic(val(cur))]
             ELSE IF is_bad(r.val) THEN [e |-> cur, ret |-> RetErr(cur, val(cur))]
             ELSE [e |-> cur, ret |-> RetOk(cur, val(cur))]

\* <ClusterChain as Iterator>::next on table f with self.e = cur: the new
\* self.e and what is returned.  The lookup self.f.entry(c) is made whenever c
\* is not the end mark, also when c is the bad-cluster mark.
ClusterChain_next(f, cur) ==
    IF is_last(cur) THEN [e |-> cur, ret |-> RetNone(NoLookup)]
    ELSE LET r == Fat_entry(f, cur)
         IN  IF r.panic THEN [e |-> cur, ret |-> RetPanic(val(cur))]
             ELSE IF is_bad(r.val) THEN [e |-> r.val, ret |-> RetErr(cur, val(cur))]
             ELSE [e |-> r.val, ret |-> RetOk(cur, val(cur))]

(***************************************************************************)
(* DirEntry and EntryType                                                  *)
(***************************************************************************)
\* DirEntry::entry_type: self.v[0]
entry_type(d) == d[0]

\* EntryType::type_code: self.raw & ((1 << 6) - 1), the low six bits
type_code(r) == r % 64

\* EntryType::type_importance: (self.raw >> 5) & 1
type_importance(r) == (r \div 32) % 2

\* EntryType::type_category: (self.raw >> 6) & 1
type_category(r) == (r \div 64) % 2

\* EntryType::in_use: (self.raw >> 6) & 1 != 0, that is bit 6
in_use(r) == (r \div 64) % 2 # 0

(***************************************************************************)
(* Bounds and inputs of the Fat, ClusterChain and DirEntry parts           *)
(***************************************************************************)
\* the largest number of entries of a Fat
MaxEntries == 4

\* the yielded elements that `out` records
MaxOut == 3

\* nyield counts to one more than any table can yield without repeating
MaxSteps == MaxEntries + 1

\* what an entry may hold: every index of the largest table (an index out of
\* bounds for the shorter ones) and the two marks
EntryValues == { U32(i) : i \in 0..(MaxEntries - 1) } \cup {BadCluster, LastCluster}

TablesOfLen(n) == [1..n -> EntryValues]

\* the tables a ClusterChain walks
Tables == UNION { TablesOfLen(n) : n \in 2..MaxEntries }

\* the largest byte length a Fat is read with
MaxFatBytes == 36

\* what a Fat read directly holds: one value in every entry, or each entry
\* naming the next and the last one holding the end mark
FatFills(n) ==
    { [i \in 1..n |-> x] : x \in EntryValues \cup {<<65535, 65528>>} }
    \cup { [i \in 1..n |-> IF i = n THEN LastCluster ELSE U32(i)] }

\* the indices Fat::entry is called with directly
Probes == { U32(i) : i \in 0..(MaxFatBytes \div 4 + 1) } \cup {BadCluster, LastCluster}

\* first_cluster (bytes 20..23) of the directory entries tried
FirstClusters == {2, 258}

MkDirEntry(t, fc) ==
    [i \in 0..31 |-> IF i = 0 THEN t
                     ELSE IF i \in 20..23 THEN ByteOf(fc, i - 20)
                     ELSE 0]

DirEntries == { MkDirEntry(t, fc) : t \in Byte, fc \in FirstClusters }

(***************************************************************************)
(* Initial states                                                          *)
(***************************************************************************)
NoCall == [op |-> "none", arg |-> 0, panic |-> FALSE, val |-> 0]
Call(op, arg, r) == [op |-> op, arg |-> arg, panic |-> r.panic, val |-> r.val]

BootIdle  == buf = <<>> /\ ctor = "none" /\ raw = <<>> /\ bsres = NoResult
FatIdle   == v = <<>> /\ fres = NoCall
ChainIdle == /\ start = U32(0) /\ e = U32(0) /\ st = "idle" /\ last = NotCalled
             /\ out = <<>> /\ nyield = 0 /\ tick = 0
EntryIdle == de = <<>> /\ et = -1 /\ ans = NoCall

\* a sector is at hand, no BootSector has been constructed
InitBoot ==
    /\ part = "boot"
    /\ buf \in Sectors /\ ctor = "none" /\ raw = <<>> /\ bsres = NoResult
    /\ FatIdle /\ ChainIdle /\ EntryIdle

\* no Fat has been read
InitFat ==
    /\ part = "fat"
    /\ v = <<>> /\ fres = NoCall
    /\ BootIdle /\ ChainIdle /\ EntryIdle

\* ClusterChain { f: &fat, e: start } over a Fat holding any table
InitChain ==
    /\ part = "chain"
    /\ v \in Tables /\ fres = NoCall
    /\ start \in EntryValues /\ e = start /\ st = "running" /\ last = NotCalled
    /\ out = <<>> /\ nyield = 0 /\ tick = 0
    /\ BootIdle /\ EntryIdle

\* DirEntry { v: de }
InitEntry ==
    /\ part = "entry"
    /\ de \in DirEntries /\ et = -1 /\ ans = NoCall
    /\ BootIdle /\ FatIdle /\ ChainIdle

Init == InitBoot \/ InitFat \/ InitChain \/ InitEntry

(***************************************************************************)
(* BootSector constructors                                                 *)
(***************************************************************************)
\* BootSector::from(s): BootSector { raw: s }.validate()
From ==
    /\ part = "boot" /\ ctor = "none"
    /\ ctor' = "from"
    /\ raw' = buf
    /\ bsres' = validate(buf)
    /\ UNCHANGED <<part, buf, fatVars, chainVars, entryVars>>

\* BootSector::read_from(s): read_exact fills all of sb.raw or fails
ReadFrom ==
    /\ part = "boot" /\ ctor = "none"
    /\ ctor' = "read_from"
    /\ \E io \in {"ok", "err"} :
          IF io = "err"
          THEN raw' = <<>> /\ bsres' = IoError
          ELSE raw' = buf /\ bsres' = WrapInit(validate(buf))
    /\ UNCHANGED <<part, buf, fatVars, chainVars, entryVars>>

\* BootSector::read_at_from(s, offs): read_at fails, or reads n <= 512 bytes;
\* the count it returns is dropped (try! on the Result only), so after a short
\* read the rest of sb.raw is whatever the uninitialized memory holds.
ReadAtFrom ==
    /\ part = "boot" /\ ctor = "none"
    /\ ctor' = "read_at_from"
    /\ \E n \in {-1, SectorLen} \cup ShortReads, stale \in StaleBytes :
          IF n = -1
          THEN raw' = <<>> /\ bsres' = IoError
          ELSE LET r == [i \in 0..(SectorLen - 1) |-> IF i < n THEN buf[i] ELSE stale]
               IN  raw' = r /\ bsres' = WrapInit(validate(r))
    /\ UNCHANGED <<part, buf, fatVars, chainVars, entryVars>>

NextBoot == From \/ ReadFrom \/ ReadAtFrom

(***************************************************************************)
(* Fat operations                                                          *)
(***************************************************************************)
\* Fat::read_at_from(s, offs, len): panics unless len is a multiple of 4;
\* otherwise a Vec of len / 4 entries is filled by read_at (which may fail).
\* The entries are whatever the source (or, after a short read, the
\* uninitialized Vec) holds; the model offers the tables of FatFills.
Fat_read_at_from ==
    /\ part = "fat" /\ fres.op = "none"
    /\ \E len \in 0..MaxFatBytes :
          IF len % 4 # 0
          THEN v' = <<>> /\ fres' = Call("read_at_from", len, Panicked)
          ELSE \E io \in {"ok", "err"} :
                  IF io = "err"
                  THEN v' = <<>> /\ fres' = [Call("read_at_from", len, Returned(0)) EXCEPT !.op = "io_error"]
                  ELSE /\ v' \in FatFills(len \div 4)
                       /\ fres' = Call("read_at_from", len, Returned(len \div 4))
    /\ UNCHANGED <<part, bootVars, chainVars, entryVars>>

FatLoaded == part = "fat" /\ fres.op \in {"read_at_from", "entry", "cluster_ct", "media_type"}
                          /\ ~fres.panic

\* a direct call of Fat::entry
FatEntryCall ==
    /\ FatLoaded
    /\ \E x \in Probes : fres' = Call("entry", x, Fat_entry(v, from_val(x)))
    /\ UNCHANGED <<part, v, bootVars, chainVars, entryVars>>

FatClusterCtCall ==
    /\ FatLoaded
    /\ \E r \in Fat_cluster_ct(v) : fres' = Call("cluster_ct", 0, r)
    /\ UNCHANGED <<part, v, bootVars, chainVars, entryVars>>

FatMediaTypeCall ==
    /\ FatLoaded
    /\ fres' = Call("media_type", 0, Fat_media_type(v))
    /\ UNCHANGED <<part, v, bootVars, chainVars, entryVars>>

NextFat == Fat_read_at_from \/ FatEntryCall \/ FatClusterCtCall \/ FatMediaTypeCall

(***************************************************************************)
(* ClusterChain                                                            *)
(***************************************************************************)
Min(a, b) == IF a < b THEN a ELSE b

\* one call of next().  A panic unwinds out of the caller: the walker is not
\* stepped again.  After None the iterator may be called again.
ChainNext ==
    /\ part = "chain" /\ st \in {"running", "ended"}
    /\ LET r == ClusterChain_next(v, e)
           yielded == r.ret.kind \in {"Ok", "Err"}
       IN  /\ e' = r.e
           /\ last' = r.ret
           /\ st' = IF r.ret.kind = "panic" THEN "panicked"
                    ELSE IF r.ret.kind = "None" THEN "ended"
                    ELSE st
           /\ out' = IF yielded /\ Len(out) < MaxOut
                     THEN Append(out, [kind |-> r.ret.kind, c |-> r.ret.c])
                     ELSE out
           /\ nyield' = IF yielded THEN Min(nyield + 1, MaxSteps) ELSE nyield
    /\ tick' = 1 - tick
    /\ UNCHANGED <<part, start, bootVars, fatVars, entryVars>>

NextChain == ChainNext

(***************************************************************************)
(* DirEntry and EntryType accessors                                        *)
(***************************************************************************)
\* the caller reads the type byte and takes it apart with EntryType
MakeEntryType ==
    /\ part = "entry" /\ et = -1
    /\ et' = entry_type(de)
    /\ UNCHANGED <<part, de, ans, bootVars, fatVars, chainVars>>

TypeCodeCall ==
    /\ part = "entry" /\ et # -1
    /\ ans' = Call("type_code", et, Returned(type_code(et)))
    /\ UNCHANGED <<part, de, et, bootVars, fatVars, chainVars>>

TypeImportanceCall ==
    /\ part = "entry" /\ et # -1
    /\ ans' = Call("type_importance", et, Returned(type_importance(et)))
    /\ UNCHANGED <<part, de, et, bootVars, fatVars, chainVars>>

TypeCategoryCall ==
    /\ part = "entry" /\ et # -1
    /\ ans' = Call("type_category", et, Returned(type_category(et)))
    /\ UNCHANGED <<part, de, et, bootVars, fatVars, chainVars>>

InUseCall ==
    /\ part = "entry" /\ et # -1
    /\ ans' = Call("in_use", et, Returned(in_use(et)))
    /\ UNCHANGED <<part, de, et, bootVars, fatVars, chainVars>>

NextEntry == MakeEntryType \/ TypeCodeCall \/ TypeImportanceCall
             \/ TypeCategoryCall \/ InUseCall

(***************************************************************************)
(* Specifications                                                          *)
(***************************************************************************)
Next == NextBoot \/ NextFat \/ NextChain \/ NextEntry

Spec == Init /\ [][Next]_vars

SpecBoot  == InitBoot /\ [][NextBoot]_vars
SpecFat   == InitFat /\ [][NextFat]_vars
SpecChain == InitChain /\ [][NextChain]_vars
SpecEntry == InitEntry /\ [][NextEntry]_vars

\* a caller that keeps calling next() until it returns None (a for loop)
SpecChainFair == SpecChain /\ WF_vars(ChainNext)

(***************************************************************************)
(* Claims about BootSector construction                                    *)
(***************************************************************************)
\* the little-endian integer in the n bytes of r at offset off
RECURSIVE FieldAt(_, _, _)
FieldAt(r, off, n) == IF n = 0 THEN 0 ELSE r[off] + 256 * FieldAt(r, off + 1, n - 1)

RECURSIVE Pow2(_)
Pow2(k) == IF k = 0 THEN 1 ELSE 2 * Pow2(k - 1)

HasMagic(r)     == \A i \in 3..10 : r[i] = EXFAT[i - 2]
ReservedZero(r) == \A i \in 11..63 : r[i] = 0

\* a BootSector has been populated with 512 bytes and validated
Constructed == part = "boot" /\ ctor # "none" /\ bsres.tag # "Io"

\* the BootSectorInitError of a failed construction, unwrapped
ErrorOf(res) == IF res.tag = "Init" THEN res.err ELSE res

\* the cross-field invariants of the boot sector, cheapest first
CrossFieldOk(r) ==
    /\ r[110] \in {1, 2}
    /\ r[108] >= 9 /\ r[108] <= 12
    /\ (r[112] <= 100 \/ r[112] = 255)
    /\ FieldAt(r, 96, 4) >= 2
    /\ FieldAt(r, 96, 4) <= FieldAt(r, 92, 4) + 1
    /\ FieldAt(r, 80, 4) + FieldAt(r, 84, 4) * r[110] <= FieldAt(r, 88, 4)
    /\ FieldAt(r, 88, 4) + FieldAt(r, 92, 4) * Pow2(r[109]) <= FieldAt(r, 72, 8)

\* C1: every sector with the right magic, a zero reserved region and
\* fat_offs >= 24 that breaks a cross-field invariant is refused with a
\* validation error by whichever constructor populated it.
C1_CrossFieldRefused ==
    (/\ Constructed
     /\ HasMagic(raw) /\ ReservedZero(raw) /\ FieldAt(raw, 80, 4) >= 24
     /\ ~CrossFieldOk(raw))
    => ErrorOf(bsres).tag # "Ok"

\* C2 as stated: with fat_offs < 24 construction fails with
\* FatOffsTooSmall(fat_offs) whatever the magic and the reserved bytes are.
C2_FatOffsErrorRegardless ==
    (Constructed /\ FieldAt(raw, 80, 4) < 24)
    => ErrorOf(bsres) = FatOffsTooSmall(FieldAt(raw, 80, 4))

\* C2 amended: with the right magic and a zero reserved region, fat_offs < 24
\* makes construction fail with FatOffsTooSmall carrying fat_offs, whatever
\* the remaining fields are; the magic and the reserved bytes are checked
\* first and their errors take precedence.
C2_FatOffsErrorAfterMagicAndZero ==
    (Constructed /\ FieldAt(raw, 80, 4) < 24)
    => ErrorOf(bsres) =
          IF ~HasMagic(raw) THEN BadMagic(Slice(raw, 3, 11))
          ELSE IF ~ReservedZero(raw) THEN MustBeZeroNonZero
          ELSE FatOffsTooSmall(FieldAt(raw, 80, 4))

\* a sector with the right magic, zero reserved bytes and fat_offs = 23 has
\* been refused
C2_Witness ==
    /\ Constructed /\ HasMagic(raw) /\ ReservedZero(raw)
    /\ FieldAt(raw, 80, 4) = 23
    /\ ErrorOf(bsres).tag = "FatOffsTooSmall"

Ok(c)  == [kind |-> "Ok", c |-> c]
Err(c) == [kind |-> "Err", c |-> c]

IsPrefix(p, q) == Len(p) <= Len(q) /\ \A i \in 1..Len(p) : p[i] = q[i]

\* entry[x] of the table, for x in bounds
EntryAt(x) == v[x[2] + 1]

\* the walker was started at an index s of the table whose entry names
\* another index n of the table, and entry[n] = m
TwoLinkCase(m) ==
    /\ part = "chain"
    /\ InBounds(start, Len(v))
    /\ InBounds(EntryAt(start), Len(v))
    /\ EntryAt(start) # start
    /\ EntryAt(EntryAt(start)) = m

\* C4 as stated: with entry[s] = n and entry[n] = 0xFFFFFFFF the walker
\* started at s yields Ok(s) only, never n, and then ends.
C4_YieldsStartOnly ==
    TwoLinkCase(LastCluster)
    => /\ IsPrefix(out, <<Ok(start)>>)
       /\ st # "panicked"
       /\ (st = "ended" => out = <<Ok(start)>>)

\* C4 amended: with entry[s] = n and entry[n] = 0xFFFFFFFF the walker started
\* at s yields exactly two elements, Ok(s) and then Ok(n), and then ends.
C4_YieldsStartThenNext ==
    TwoLinkCase(LastCluster)
    => /\ IsPrefix(out, <<Ok(start), Ok(EntryAt(start))>>)
       /\ nyield = Len(out)
       /\ st # "panicked"
       /\ (st = "ended" => out = <<Ok(start), Ok(EntryAt(start))>>)

\* the walk 2 -> 3 -> end has ended
C4_Witness ==
    /\ TwoLinkCase(LastCluster) /\ start = U32(2) /\ EntryAt(start) = U32(3)
    /\ st = "ended" /\ Len(out) = 2

\* C5 as stated: with entry[s] = n and entry[n] = 0xFFFFFFF7 the first two
\* elements are Ok(s) and an error that carries s.
C5_ErrorCarriesStart ==
    (TwoLinkCase(BadCluster) /\ Len(out) >= 2)
    => out[1] = Ok(start) /\ out[2] = Err(start)

\* C5 amended: with entry[s] = n and entry[n] = 0xFFFFFFF7 the first two
\* elements are Ok(s) and an error that carries n, the cluster whose own
\* entry is the bad-cluster mark.
C5_ErrorCarriesMarked ==
    TwoLinkCase(BadCluster)
    => /\ (Len(out) >= 1 => out[1] = Ok(start))
       /\ (Len(out) >= 2 => out[2] = Err(EntryAt(start)))

\* the walk 2 -> 3 -> bad has yielded its second element
C5_Witness ==
    /\ TwoLinkCase(BadCluster) /\ start = U32(2) /\ EntryAt(start) = U32(3)
    /\ Len(out) = 2 /\ last.kind = "Err"

\* C6: the call of next() that follows the one that yielded an error returns
\* None, looks nothing up in the table and does not panic.
C6_NothingAfterError ==
    [][(part = "chain" /\ last.kind = "Err")
       => (last'.kind = "None" /\ last'.looked = NoLookup /\ st' # "panicked")]_vars

\* the entry reached from x after k links; Stuck once a link leaves the table
Stuck == <<-2, -2>>
RECURSIVE Hop(_, _, _)
Hop(f, x, k) ==
    IF k = 0 THEN x
    ELSE LET y == Hop(f, x, k - 1)
         IN  IF InBounds(y, Len(f)) THEN f[y[2] + 1] ELSE Stuck

\* the links from x reach the end mark through entries of the table only
\* (the bad-cluster mark is no index of the table)
ReachesEnd(f, x) == \E k \in 0..Len(f) : Hop(f, x, k) = LastCluster

\* the links from x stay in the table for more hops than it has entries: they
\* have entered a cycle
EntersCycle(f, x) == \A k \in 0..Len(f) : InBounds(Hop(f, x, k), Len(f))

\* C10: stepped again and again, a walker whose links reach the end mark
\* ends, having yielded at most as many elements as the table has entries;
\* a walker whose links enter a cycle never ends, never fails and yields Ok
\* for ever.
C10_EndsUnlessCycle ==
    [](/\ ReachesEnd(v, start) => <>(st = "ended" /\ nyield <= Len(v))
       /\ EntersCycle(v, start) =>
             /\ st = "running" /\ last.kind \in {"init", "Ok"}
             /\ <>(tick = 0 /\ last.kind = "Ok")
             /\ <>(tick = 1 /\ last.kind = "Ok"))

\* a walk through every entry of a table of MaxEntries entries has ended
C10_Witness ==
    /\ part = "chain" /\ ReachesEnd(v, start)
    /\ Len(v) = MaxEntries /\ st = "ended" /\ nyield = Len(v)

(***************************************************************************)
(* Claims about Fat::entry                                                 *)
(***************************************************************************)
\* C9: Fat::entry returns an entry only for an index i with
\* 2 <= i <= cluster_count + 1 (the table has cluster_count + 2 entries) and
\* rejects every other index.
C9_EntryRejectsOutOfRange ==
    (part = "fat" /\ fres.op = "entry")
    => (~fres.panic <=> (fres.arg[1] = 0 /\ 2 <= fres.arg[2] /\ fres.arg[2] <= Len(v) - 1))

\* C11: on a Fat read with a byte length that is a multiple of 4 and holds
\* n = len / 4 >= 2 entries, cluster_ct() returns n - 2 and neither panics on
\* an underflow nor wraps around.
C11_ClusterCtIsEntriesLessTwo ==
    (part = "fat" /\ fres.op = "cluster_ct" /\ Len(v) >= 2)
    => (~fres.panic /\ fres.val = <<0, Len(v) - 2>>)

(***************************************************************************)
(* Claims about EntryType                                                  *)
(***************************************************************************)
\* C7: in_use() is true for every type byte in 0x81..=0xFF and false for
\* every type byte in 0x01..=0x7F.
C7_InUseRanges ==
    (part = "entry" /\ ans.op = "in_use")
    => /\ (ans.arg \in 129..255 => ans.val = TRUE)
       /\ (ans.arg \in 1..127 => ans.val = FALSE)

\* C8: type_code() is the type byte modulo 32 (bits 0-4) and
\* type_importance() is its bit 5.
C8_TypeCodeLowFiveBits ==
    /\ (part = "entry" /\ ans.op = "type_code") => ans.val = ans.arg % 32
    /\ (part = "entry" /\ ans.op = "type_importance") => ans.val = (ans.arg \div 32) % 2
====
